---- MODULE Spec2Model ----
(***************************************************************************)
(* A model of heisenware/storage (src/src/Storage.js, the MD5 variant,     *)
(* lines 1-228): a filesystem-backed key-value store.  The state is the    *)
(* directory tree, the static maps Storage.files (the Index) and           *)
(* Storage.queues (one job queue per file path), and the API calls that    *)
(* are in flight.  One action models one event-loop turn: the synchronous  *)
(* part of an API call up to its first suspension, or the completion of a  *)
(* filesystem operation together with the promise continuations that run   *)
(* in the same turn (queue bookkeeping, settling the call, Index update).  *)
(***************************************************************************)
EXTENDS Integers, Sequences, FiniteSets, TLC

VARIABLES
    disk,    \* the directory tree: file path -> content
    files,   \* Storage.files: directory string -> (file name -> file path)
    queues,  \* Storage.queues: file path -> [jobs, pending] of that path's queue
    calls,   \* the API calls made so far, in submission order
    faults,  \* the number of filesystem faults injected so far
    scope,   \* the inputs of this run: the instances and keys the calls use
    external \* the number of files written from outside, past the API, so far

vars == <<disk, files, queues, calls, faults, scope, external>>

-----------------------------------------------------------------------------
(* Bounds of the model *)

MaxCalls == 3      \* API calls (setItem, getItem, removeItem, clear) per behaviour
MaxFaults == 1     \* filesystem operations that fail for an outside reason
MaxExternal == 1   \* files written into the directory from outside

-----------------------------------------------------------------------------
(* Inputs *)

Instances == {"storage1", "storage2"}   \* two `new Storage({ dir })` on one dir
Keys == {"item1", "item2"}
Values == {"v1", "v2", "0"}             \* "0" is the number 0, a falsy value
Folders == {"", "test1"}                \* '' is the default: no folder
Root == "/store"

Null == "null"
Undefined == "undefined"

\* JavaScript truthiness of a value (0, false, '' and null are falsy)
Truthy(v) == v \notin {"0", "false", "", Null, Undefined}

-----------------------------------------------------------------------------
(* Paths and file names *)

\* A digest that gives every key the same file name
Md5Same(key) == "3c1e"

\* crypto md5 hex digest of a key: distinct keys get distinct names
Md5(key) ==
    CASE key = "item1" -> "3c1e"
      [] key = "item2" -> "9f0b"

Hashes == {Md5(k) : k \in Keys}

\* A file name is a digest, or a digest followed by TMP_MARKER and a uniquifier
\* (tmp = 0: no marker; tmp = c > 0: the temporary file of write job c).
FileNames == [hash : Hashes, tmp : 0..MaxCalls]
FinalName(h) == [hash |-> h, tmp |-> 0]

\* tree.name.includes(TMP_MARKER)
IncludesTmpMarker(name) == name.tmp # 0

Paths == [folder : Folders, name : FileNames]
FinalPaths == {p \in Paths : ~IncludesTmpMarker(p.name)}
NoPath == [folder |-> "?", name |-> [hash |-> "?", tmp |-> 0]]

\* path.join(dir, folder)
Join(dir, folder) == IF folder = "" THEN dir ELSE dir \o "/" \o folder

\* path.join(path.join(this._dir, folder), md5Key)
FilePath(folder, md5Key) == [folder |-> folder, name |-> FinalName(md5Key)]

\* `${path}${TMP_MARKER}${random}`: a sibling of path, unique to the job
TmpPath(path, c) == [folder |-> path.folder, name |-> [hash |-> path.name.hash, tmp |-> c]]

\* whether a file in folder g lies under path.join(Root, f)
Under(g, f) == f = "" \/ g = f

-----------------------------------------------------------------------------
(* File contents and the record codec *)

NoFile == [kind |-> "none", key |-> "", value |-> ""]
Partial == [kind |-> "partial", key |-> "", value |-> ""]   \* a write in progress
Corrupt == [kind |-> "corrupt", key |-> "", value |-> ""]   \* not JSON

\* JSON.stringify({ key, value })
Stringify(key, value) == [kind |-> "json", key |-> key, value |-> value]

\* JSON.parse(buffer): throws on text that is not JSON
ParseThrows(text) == text.kind # "json"
Parse(text) == [isNull |-> FALSE, key |-> text.key, value |-> text.value]
NullItem == [isNull |-> TRUE, key |-> Undefined, value |-> Undefined]

\* item?.value and item?.key
ValueOf(item) == IF item.isNull THEN Undefined ELSE item.value
KeyOf(item) == IF item.isNull THEN Undefined ELSE item.key

-----------------------------------------------------------------------------
(* Maps with a growing domain (JavaScript objects) *)

EmptyMap == [x \in {} |-> x]
Put(f, k, v) == (k :> v) @@ f
RemoveKey(f, k) == [x \in (DOMAIN f) \ {k} |-> f[x]]

-----------------------------------------------------------------------------
(* Storage.files and the directory scan *)

\* this._dir: every instance is constructed on the same directory
InstanceDir(i) == Root

\* An index that each instance keeps for itself
FilesKeyPerInstance(i, dir) == i \o ":" \o dir

\* Storage.files[dir]: the static map is addressed by the directory string
FilesKey(i, dir) == dir

\* The names a recursive walk of the root finds that do not include TMP_MARKER
ScannedNames(D) == {n \in FileNames : ~IncludesTmpMarker(n) /\ \E f \in Folders : D[[folder |-> f, name |-> n]] # NoFile}

\* _getDirectoryInfo(dir)[1]: files[tree.name] = filename for every such file.
\* Where one name occurs in several folders the entry visited last wins, and
\* readdirSync promises no order: every choice is a possible result.
_getDirectoryInfo(D) ==
    LET names == ScannedNames(D)
        visits == {v \in [names -> Folders] : \A n \in names : D[[folder |-> v[n], name |-> n]] # NoFile}
    IN {[n \in names |-> [folder |-> v[n], name |-> n]] : v \in visits}

\* Storage.files[this._dir][md5Key], NoPath where it is undefined
Lookup(F, i, key) ==
    LET idx == F[FilesKey(i, InstanceDir(i))]
        n == FinalName(Md5(key))
    IN IF n \in DOMAIN idx THEN idx[n] ELSE NoPath

-----------------------------------------------------------------------------
(* The jobs: what _writeFile, _readFile and _deleteFile run in the queue *)

\* A catch block that removes the temporary file and swallows the error
WriteCatchSwallow(tmp, D) == [disk |-> [D EXCEPT ![tmp] = NoFile], threw |-> FALSE]

\* catch block of the write job: pathTmp is scoped to the try block, so
\* unlinkSync(pathTmp) throws a ReferenceError: the temporary file stays and
\* the job rejects.
WriteCatch(tmp, D) == [disk |-> D, threw |-> TRUE]

\* The write job once writeFile has ended: outcome "ok", "writeFile" (writeFile
\* rejected, the temporary file is left as it was) or "rename" (renameSync threw
\* after a complete write).
WriteJob(path, tmp, key, value, outcome, D) ==
    CASE outcome = "ok" ->
            [disk |-> [D EXCEPT ![tmp] = NoFile, ![path] = Stringify(key, value)],
             threw |-> FALSE]
      [] outcome = "writeFile" -> WriteCatch(tmp, D)
      [] outcome = "rename" ->
            WriteCatch(tmp, [D EXCEPT ![tmp] = IF @ = NoFile THEN NoFile
                                                ELSE Stringify(key, value)])

\* A catch block that logs the error and throws it again
ReadCatchRethrow == [item |-> NullItem, threw |-> TRUE]

\* catch block of the read job: the error is logged and null returned
ReadCatch == [item |-> NullItem, threw |-> FALSE]

\* The read job: readFile and JSON.parse inside try
ReadJob(path, outcome, D) ==
    IF outcome # "ok" \/ D[path] = NoFile \/ ParseThrows(D[path])
    THEN ReadCatch
    ELSE [item |-> Parse(D[path]), threw |-> FALSE]

\* The delete job: `return unlink(path)` leaves the try block before the
\* promise settles, so a failing unlink rejects the job.
DeleteJob(path, outcome, D) ==
    IF outcome = "ok" /\ D[path] # NoFile
    THEN [disk |-> [D EXCEPT ![path] = NoFile], threw |-> FALSE]
    ELSE [disk |-> D, threw |-> TRUE]

-----------------------------------------------------------------------------
(* Storage._runQueue and the queue package (concurrency 1, autostart) *)

\* A queue that lets two jobs of a path run at once
ConcurrencyTwo == 1 + 1

Concurrency == 1

\* jobs.pop(): a queue that takes the job pushed last
Pop(jobs) == [job |-> jobs[Len(jobs)], rest |-> SubSeq(jobs, 1, Len(jobs) - 1)]

\* jobs.shift(): the queue takes the job pushed first
Shift(jobs) == [job |-> Head(jobs), rest |-> Tail(jobs)]

\* A write job that writes to the final path itself, without a temporary file
JobBeginInPlace(c, S) ==
    IF S.calls[c].op = "setItem"
    THEN [S EXCEPT !.disk[S.calls[c].path] = Partial]
    ELSE S

\* What a job does as it starts: the write job calls writeFile(pathTmp, ...),
\* which creates the temporary file and fills it as the write goes on.
JobBegin(c, S) ==
    IF S.calls[c].op = "setItem"
    THEN [S EXCEPT !.disk[TmpPath(S.calls[c].path, c)] = Partial]
    ELSE S

\* Queue.start(): starts jobs while fewer than `concurrency` are pending
RECURSIVE start(_, _)
start(id, S) ==
    LET q == S.queues[id] IN
    IF Cardinality(q.pending) >= Concurrency \/ q.jobs = <<>>
    THEN S
    ELSE LET sh == Shift(q.jobs)
             S1 == [S EXCEPT !.queues[id] = [jobs |-> sh.rest,
                                             pending |-> q.pending \cup {sh.job}],
                             !.calls[sh.job].st = "running"]
         IN start(id, JobBegin(sh.job, S1))

\* Storage._runQueue(id, job): the queue of the path is looked up or created,
\* the job is pushed and (autostart) the queue started.
_runQueue(id, c, S) ==
    LET S0 == IF id \in DOMAIN S.queues
              THEN S
              ELSE [S EXCEPT !.queues = Put(@, id, [jobs |-> <<>>, pending |-> {}])]
        S1 == [S0 EXCEPT !.queues[id].jobs = Append(@, c)]
    IN start(id, S1)

\* An 'end' handler that leaves the drained queue in Storage.queues
OnEndKeep(id, S) == S

\* q.on('end', ...): the handler deletes Storage.queues[id]
OnEnd(id, S) == [S EXCEPT !.queues = RemoveKey(@, id)]

\* The queue's next(): the job is no longer pending; a drained queue emits
\* 'end'; otherwise the next job starts.
next(id, c, S) ==
    LET S1 == [S EXCEPT !.queues[id].pending = @ \ {c}]
        q == S1.queues[id]
    IN IF q.pending = {} /\ q.jobs = <<>>
       THEN OnEnd(id, S1)
       ELSE start(id, S1)

-----------------------------------------------------------------------------
(* The API calls *)

State == [disk |-> disk, files |-> files, queues |-> queues, calls |-> calls]

Settled(C) == {c \in 1..Len(C) : C[c].st \in {"resolved", "rejected"}}

\* No call is in flight: every call made so far has settled
Quiet(C) == Settled(C) = 1..Len(C)

NewCall(op, i, key, value, folder, path, st, result) ==
    [op |-> op, inst |-> i, key |-> key, value |-> value, folder |-> folder,
     path |-> path, st |-> st, result |-> result,
     fs |-> "",                \* "ok", or the step of the job that failed
     quiet |-> Quiet(calls)]   \* whether no call was in flight at submission

Commit(S) ==
    /\ disk' = S.disk
    /\ files' = S.files
    /\ queues' = S.queues
    /\ calls' = S.calls

\* setItem up to `await this._writeFile(...)`
SetItem(i, key, value, folder) ==
    /\ Len(calls) < MaxCalls
    /\ LET c == Len(calls) + 1
           filePath == FilePath(folder, Md5(key))
           S == [State EXCEPT !.calls = Append(@,
                    NewCall("setItem", i, key, value, folder, filePath, "queued", Undefined))]
       IN Commit(_runQueue(filePath, c, S))
    /\ UNCHANGED <<faults, scope, external>>

\* getItem up to `await this._readFile(filePath)`, or to its return of null
GetItem(i, key) ==
    /\ Len(calls) < MaxCalls
    /\ LET c == Len(calls) + 1
           filePath == Lookup(files, i, key)
       IN IF filePath = NoPath
          THEN Commit([State EXCEPT !.calls = Append(@,
                    NewCall("getItem", i, key, "", "", NoPath, "resolved", Null))])
          ELSE Commit(_runQueue(filePath, c, [State EXCEPT !.calls = Append(@,
                    NewCall("getItem", i, key, "", "", filePath, "queued", Undefined))]))
    /\ UNCHANGED <<faults, scope, external>>

\* removeItem up to `await this._deleteFile(filePath)`, or to its early return
RemoveItem(i, key) ==
    /\ Len(calls) < MaxCalls
    /\ LET c == Len(calls) + 1
           filePath == Lookup(files, i, key)
       IN IF filePath = NoPath
          THEN Commit([State EXCEPT !.calls = Append(@,
                    NewCall("removeItem", i, key, "", "", NoPath, "resolved", Undefined))])
          ELSE Commit(_runQueue(filePath, c, [State EXCEPT !.calls = Append(@,
                    NewCall("removeItem", i, key, "", "", filePath, "queued", Undefined))]))
    /\ UNCHANGED <<faults, scope, external>>

\* The outcomes a filesystem operation may have: a fault from outside is
\* possible while the fault budget lasts.
Outcomes(kinds) == {"ok"} \cup (IF faults < MaxFaults THEN kinds ELSE {})

\* The continuation of setItem after the await
SetItemSettle(c, threw, S) ==
    LET call == S.calls[c] IN
    IF threw
    THEN [S EXCEPT !.calls[c].st = "rejected"]
    ELSE [S EXCEPT !.files[FilesKey(call.inst, InstanceDir(call.inst))] =
                        Put(@, FinalName(Md5(call.key)), call.path),
                   !.calls[c].st = "resolved"]

\* `return item?.value ? item.value : null`
GetItemResult(item) == IF Truthy(ValueOf(item)) THEN ValueOf(item) ELSE Null

\* The continuation of getItem after the await
GetItemSettle(c, r, S) ==
    IF r.threw
    THEN [S EXCEPT !.calls[c].st = "rejected"]
    ELSE [S EXCEPT !.calls[c].st = "resolved", !.calls[c].result = GetItemResult(r.item)]

\* The continuation of removeItem after the await
RemoveItemSettle(c, threw, S) ==
    LET call == S.calls[c] IN
    IF threw
    THEN [S EXCEPT !.calls[c].st = "rejected"]
    ELSE [S EXCEPT !.files[FilesKey(call.inst, InstanceDir(call.inst))] =
                        RemoveKey(@, FinalName(Md5(call.key))),
                   !.calls[c].st = "resolved"]

\* q.on('success' | 'error', (result, jobDone) => ...) of a listener that
\* settles on the event of any job
AnyJob(job, jobDone) == TRUE

\* `if (job === jobDone)`: a call's listeners act on the event of its own job
SameJob(job, jobDone) == job = jobDone

\* The calls whose promise is pending with listeners on the queue of path id
Listeners(id, S) ==
    {d \in 1..Len(S.calls) : /\ S.calls[d].op # "clear"
                             /\ S.calls[d].path = id
                             /\ S.calls[d].st \in {"queued", "running"}}

\* The continuation of call d once its promise settles with r
Continue(d, r, S) ==
    CASE S.calls[d].op = "setItem" -> SetItemSettle(d, r.threw, S)
      [] S.calls[d].op = "getItem" -> GetItemSettle(d, r, S)
      [] S.calls[d].op = "removeItem" -> RemoveItemSettle(d, r.threw, S)

\* q.emit('success', result, jobDone) or q.emit('error', error, jobDone):
\* every listener of the queue is called, in the order of registration
RECURSIVE Emit(_, _, _, _)
Emit(ds, jobDone, r, S) ==
    IF ds = {} THEN S
    ELSE LET d == CHOOSE x \in ds : \A y \in ds : x <= y
         IN Emit(ds \ {d}, jobDone, r,
                 IF SameJob(d, jobDone) THEN Continue(d, r, S) ELSE S)

\* writeFile ends: the rest of the write job, the queue's next() and the
\* continuation of setItem.  A temporary file that clear() wiped meanwhile
\* makes the rename fail unless writeFile created it again.
WriteDone(c) ==
    /\ c \in 1..Len(calls)
    /\ calls[c].st = "running"
    /\ calls[c].op = "setItem"
    /\ LET call == calls[c]
           tmp == TmpPath(call.path, c)
           wiped == disk[tmp] = NoFile
       IN \E outcome \in Outcomes({"writeFile", "rename"}) \cup (IF wiped THEN {"rename"} ELSE {}) :
            LET r == WriteJob(call.path, tmp, call.key, call.value, outcome, disk)
                S1 == next(call.path, c, [State EXCEPT !.disk = r.disk, !.calls[c].fs = outcome])
            IN /\ Commit(Emit(Listeners(call.path, State), c,
                              [threw |-> r.threw, item |-> NullItem], S1))
               /\ faults' = IF outcome = "ok" \/ wiped THEN faults ELSE faults + 1
               /\ UNCHANGED <<scope, external>>

\* readFile ends: the read job, next(), and the continuation of getItem
ReadDone(c) ==
    /\ c \in 1..Len(calls)
    /\ calls[c].st = "running"
    /\ calls[c].op = "getItem"
    /\ \E outcome \in Outcomes({"readFile"}) :
            LET r == ReadJob(calls[c].path, outcome, disk)
                failed == IF outcome # "ok" \/ disk[calls[c].path] = NoFile THEN "readFile"
                          ELSE IF ParseThrows(disk[calls[c].path]) THEN "JSON.parse"
                          ELSE "ok"
                S1 == next(calls[c].path, c, [State EXCEPT !.calls[c].fs = failed])
            IN /\ Commit(Emit(Listeners(calls[c].path, State), c, r, S1))
               /\ faults' = IF outcome = "ok" THEN faults ELSE faults + 1
               /\ UNCHANGED <<scope, external>>

\* unlink ends: the delete job, next(), and the continuation of removeItem
UnlinkDone(c) ==
    /\ c \in 1..Len(calls)
    /\ calls[c].st = "running"
    /\ calls[c].op = "removeItem"
    /\ \E outcome \in Outcomes({"unlink"}) :
            LET r == DeleteJob(calls[c].path, outcome, disk)
                failed == IF r.threw THEN "unlink" ELSE "ok"
                S1 == next(calls[c].path, c, [State EXCEPT !.disk = r.disk, !.calls[c].fs = failed])
            IN /\ Commit(Emit(Listeners(calls[c].path, State), c,
                              [threw |-> r.threw, item |-> NullItem], S1))
               /\ faults' = IF outcome = "ok" THEN faults ELSE faults + 1
               /\ UNCHANGED <<scope, external>>

\* An emptyDir that removes the files of the directory itself and leaves its
\* subdirectories alone
EmptyDirFlat(folder, D) == [p \in Paths |-> IF p.folder = folder THEN NoFile ELSE D[p]]

\* emptyDir(dir): everything under the directory is removed
EmptyDir(folder, D) == [p \in Paths |-> IF Under(p.folder, folder) THEN NoFile ELSE D[p]]

\* clear up to the end of emptyDir, which goes to the filesystem directly,
\* past the queues
Clear(i, folder) ==
    /\ Len(calls) < MaxCalls
    /\ Commit([State EXCEPT
            !.disk = EmptyDir(folder, disk),
            !.calls = Append(@, NewCall("clear", i, "", "", folder, NoPath, "running", Undefined))])
    /\ UNCHANGED <<faults, scope, external>>

\* The continuation of clear: Storage.files[dir] = _getDirectoryInfo(this._dir)[1]
\* with dir = path.join(this._dir, folder)
ClearDone(c) ==
    /\ c \in 1..Len(calls)
    /\ calls[c].st = "running"
    /\ calls[c].op = "clear"
    /\ \E idx \in _getDirectoryInfo(disk) :
         Commit([State EXCEPT
            !.files = Put(@, FilesKey(calls[c].inst, Join(InstanceDir(calls[c].inst), calls[c].folder)), idx),
            !.calls[c].st = "resolved"])
    /\ UNCHANGED <<faults, scope, external>>

\* new Storage({ dir }): Storage.files[dir] = _getDirectoryInfo(dir)[1]
Construct(i) ==
    /\ \E idx \in _getDirectoryInfo(disk) :
         files' = Put(files, FilesKey(i, InstanceDir(i)), idx)
    /\ UNCHANGED <<disk, queues, calls, faults, scope, external>>

-----------------------------------------------------------------------------
(* Files written into the directory from outside, past the API *)

\* The value of a record written from outside
ExternalValue == "x1"

\* A file that parses as JSON and has no key field
KeyLess == [kind |-> "json", key |-> Undefined, value |-> "v1"]

\* What an outside writer may put into the file named after a key: a
\* well-formed record { key, value }, text that is not JSON, a key-less object
ExternalTexts(key) == {Stringify(key, ExternalValue), Corrupt, KeyLess}

\* fs.writeJson(filePath, ...) by another program: the file is created or
\* overwritten; no code of Storage runs
ExternalWrite(key, folder, text) ==
    /\ external < MaxExternal
    /\ disk' = [disk EXCEPT ![FilePath(folder, Md5(key))] = text]
    /\ external' = external + 1
    /\ UNCHANGED <<files, queues, calls, faults, scope>>

-----------------------------------------------------------------------------
(* What a caller would observe in the current state *)

\* The result of getItem(key) through instance i, run on its own from here
GetItemNow(i, key) ==
    LET filePath == Lookup(files, i, key)
    IN IF filePath = NoPath THEN Null
       ELSE GetItemResult(ReadJob(filePath, "ok", disk).item)

\* A keys() that resolves item?.key of every indexed file, without the test
\* `if (item?.key)`
keysUnfiltered(i) ==
    LET idx == files[FilesKey(i, InstanceDir(i))]
    IN {KeyOf(ReadJob(idx[n], "ok", disk).item) : n \in DOMAIN idx}

\* The result of keys() through instance i, run on its own from here: the key
\* of every indexed file that reads as an item with a truthy key
keys(i) ==
    LET idx == files[FilesKey(i, InstanceDir(i))]
        items == {ReadJob(idx[n], "ok", disk).item : n \in DOMAIN idx}
    IN {KeyOf(item) : item \in {x \in items : Truthy(KeyOf(x))}}

\* The result of keys(folder): keys() declares no parameter, so an argument
\* passed to it is ignored and the call is keys()
keysOfFolder(i, folder) == keys(i)

-----------------------------------------------------------------------------
(* The specification *)

EmptyDisk == [p \in Paths |-> NoFile]

\* A directory left by an earlier run, holding one broken file under the
\* name of item1 (tests/fixtures/existing-storage has such an item)
ExistingDisk == [EmptyDisk EXCEPT ![FilePath("", Md5("item1"))] = Corrupt]

\* The state after the instances have been constructed on the directory
InitWith(sc) ==
    /\ scope = sc
    /\ disk = ExistingDisk
    /\ \E idx \in _getDirectoryInfo(disk) :
         files = [d \in {FilesKey(i, InstanceDir(i)) : i \in Instances} |-> idx]
    /\ queues = EmptyMap
    /\ calls = <<>>
    /\ faults = 0
    /\ external = 0

\* One instance in use, every key
Init == InitWith([instances |-> {"storage1"}, keys |-> Keys])

\* Both instances in use, on one key
InitMulti == InitWith([instances |-> Instances, keys |-> {"item1"}])

Next ==
    \/ \E i \in scope.instances, key \in scope.keys, value \in Values, folder \in Folders :
            SetItem(i, key, value, folder)
    \/ \E i \in scope.instances, key \in scope.keys : GetItem(i, key)
    \/ \E i \in scope.instances, key \in scope.keys : RemoveItem(i, key)
    \/ \E i \in scope.instances, folder \in Folders : Clear(i, folder)
    \/ \E c \in 1..MaxCalls : WriteDone(c)
    \/ \E c \in 1..MaxCalls : ReadDone(c)
    \/ \E c \in 1..MaxCalls : UnlinkDone(c)
    \/ \E c \in 1..MaxCalls : ClearDone(c)
    \/ \E i \in scope.instances : Construct(i)

Spec == Init /\ [][Next]_vars

\* One instance on a key that has no file at the start, with an outside
\* writer at work on the directory
InitExternal == InitWith([instances |-> {"storage1"}, keys |-> {"item2"}])

NextExternal ==
    \/ Next
    \/ \E key \in scope.keys, folder \in Folders :
            \E text \in ExternalTexts(key) : ExternalWrite(key, folder, text)

SpecExternal == InitExternal /\ [][NextExternal]_vars

SpecMulti == InitMulti /\ [][Next]_vars

\* Every filesystem call returns in the end: while a job is executing, some
\* executing job completes
JobDone == \E c \in 1..MaxCalls : WriteDone(c) \/ ReadDone(c) \/ UnlinkDone(c)

Fairness == WF_vars(JobDone)

\* One instance on one key, under that fairness
InitLive == InitWith([instances |-> {"storage1"}, keys |-> {"item1"}])

SpecLive == InitLive /\ [][Next]_vars /\ Fairness

-----------------------------------------------------------------------------
(* Properties *)

CallIds == 1..Len(calls)
HasJob(c) == calls[c].op # "clear" /\ calls[c].path # NoPath
IsSettled(c) == calls[c].st \in {"resolved", "rejected"}

\* Call c ran on its own: no call was in flight when it was submitted, and it
\* had settled when the next call was submitted.
RanAlone(c) == calls[c].quiet /\ (c < Len(calls) => calls[c + 1].quiet)

\* C1 (round trip): a getItem(k) that follows a resolved setItem(k, v), the two
\* run one after the other with no other call in between and no filesystem
\* fault, returns v.
C1_RoundTrip ==
    \A g \in CallIds :
        ( /\ g > 1
          /\ calls[g].op = "getItem" /\ calls[g].st = "resolved"
          /\ calls[g - 1].op = "setItem" /\ calls[g - 1].st = "resolved"
          /\ calls[g - 1].key = calls[g].key
          /\ RanAlone(g - 1) /\ RanAlone(g)
          /\ faults = 0 )
        => calls[g].result = calls[g - 1].value

\* C2 (write ordering): once two or more setItem calls for one key and one
\* folder, each submitted while the one before was still in flight, have all
\* resolved (and nothing else was called on that key), getItem returns the
\* value of the call submitted last.
C2_LastSubmittedWins ==
    \A k \in Keys, f \in Folders, i \in Instances :
        LET W == {c \in CallIds : calls[c].key = k}
            last == CHOOSE c \in W : \A d \in W : d <= c
        IN ( /\ Quiet(calls)
             /\ Cardinality(W) >= 2
             /\ \A c \in CallIds : calls[c].op # "clear"
             /\ \A c \in W : calls[c].op = "setItem" /\ calls[c].folder = f
                              /\ calls[c].st = "resolved"
             /\ \A c \in W : (\E d \in W : d < c) => ~calls[c].quiet )
           => GetItemNow(i, k) = calls[last].value

\* C3 (atomic visibility): a final file path holds no file, the file it held
\* at the start, or the complete record of a setItem for that path; and a
\* resolved getItem returned null or the value of a resolved setItem of its key.
C3_AtomicVisibility ==
    /\ \A p \in FinalPaths :
          \/ disk[p] \in {NoFile, ExistingDisk[p]}
          \/ \E c \in CallIds : /\ calls[c].op = "setItem" /\ calls[c].path = p
                                /\ disk[p] = Stringify(calls[c].key, calls[c].value)
    /\ \A g \in CallIds :
          (calls[g].op = "getItem" /\ calls[g].st = "resolved" /\ calls[g].result # Null)
          => \E c \in CallIds : /\ calls[c].op = "setItem" /\ calls[c].st = "resolved"
                                /\ calls[c].key = calls[g].key
                                /\ calls[c].value = calls[g].result

\* C3 witness: a getItem returned a stored value while a setItem of the same
\* key was writing its temporary file.
C3_Witness ==
    \E g \in CallIds, c \in CallIds :
        /\ calls[g].op = "getItem" /\ calls[g].st = "resolved" /\ calls[g].result # Null
        /\ calls[c].op = "setItem" /\ calls[c].key = calls[g].key /\ c < g
        /\ calls[c].st = "running"
        /\ disk[TmpPath(calls[c].path, c)] = Partial

\* The jobs executing on file path p
Executing(p) == {c \in CallIds : HasJob(c) /\ calls[c].path = p /\ calls[c].st = "running"}

\* C4 (per-path mutual exclusion): at most one read, write or delete job is
\* executing for a file path, over the calls of all instances.
C4_MutualExclusion == \A p \in FinalPaths : Cardinality(Executing(p)) <= 1

\* C4 witness: a job of one instance is executing on a path while a job of
\* the other instance waits in that path's queue.
C4_Witness ==
    \E c \in CallIds, d \in CallIds :
        /\ HasJob(c) /\ HasJob(d) /\ calls[c].path = calls[d].path
        /\ calls[c].inst # calls[d].inst
        /\ calls[c].st = "running" /\ calls[d].st = "queued"

\* C5 (per-path FIFO): while a job is executing, every job submitted earlier
\* for the same path has finished, and every job still waiting for that path
\* was submitted later.
C5_Fifo ==
    \A c \in CallIds, d \in CallIds :
        ( /\ HasJob(c) /\ HasJob(d) /\ calls[c].path = calls[d].path
          /\ d < c /\ calls[c].st = "running" )
        => IsSettled(d)

\* C5 witness: a job is executing after an earlier job of its path failed,
\* with a later job of the path still waiting.
C5_Witness ==
    \E c \in CallIds, d \in CallIds, e \in CallIds :
        /\ HasJob(c) /\ HasJob(d) /\ HasJob(e)
        /\ calls[c].path = calls[d].path /\ calls[c].path = calls[e].path
        /\ d < c /\ c < e
        /\ calls[d].st = "rejected" /\ calls[c].st = "running" /\ calls[e].st = "queued"

FreshKeys == {k \in Keys : \A f \in Folders : ExistingDisk[FilePath(f, Md5(k))] = NoFile}

\* C7 (restart persistence): when only setItem (of truthy values) and
\* removeItem calls were made and all have resolved, constructing a Storage on the directory leaves the
\* directory as it is and getItem(k) returns what it returned before, for
\* every key whose files were all written through the API.
C7_RestartPersistence ==
    [][ ( /\ calls' = calls
          /\ \A c \in CallIds : /\ calls[c].op \in {"setItem", "removeItem"}
                                /\ calls[c].st = "resolved"
                                /\ calls[c].op = "setItem" => Truthy(calls[c].value) )
        => ( /\ disk' = disk
             /\ \A i \in Instances, k \in FreshKeys : GetItemNow(i, k)' = GetItemNow(i, k) )
      ]_vars

\* C8 (write failure): when the write job of a setItem ends with writeFile or
\* renameSync failing, the call is rejected and Storage.files is unchanged.
C8_WriteFailure ==
    [][ \A c \in CallIds :
          ( /\ calls[c].op = "setItem" /\ calls[c].st = "running"
            /\ calls'[c].st # "running" /\ calls'[c].fs # "ok" )
          => (calls'[c].st = "rejected" /\ files' = files)
      ]_vars

\* C8 witness: a setItem whose write failed has been rejected.
C8_Witness ==
    \E c \in CallIds :
        /\ calls[c].op = "setItem" /\ calls[c].fs \in {"writeFile", "rename"}
        /\ calls[c].st = "rejected"

\* C9 (removeItem always succeeds): a removeItem is never rejected, also when
\* its unlink fails because the file is no longer there (no outside fault).
C9_RemoveItemAlwaysResolves ==
    \A c \in CallIds : (calls[c].op = "removeItem" /\ faults = 0) => calls[c].st # "rejected"

\* C10 (getItem never raises): a getItem for a key absent from the Index
\* resolves with null at once; a getItem whose file is missing, unreadable or
\* not parseable resolves with null; no getItem is rejected, and neither step
\* of a getItem changes Storage.files or a file at a final path.
C10_GetItemNeverRaises ==
    [][ /\ ( Len(calls') = Len(calls) + 1 /\ calls'[Len(calls')].op = "getItem" )
           => LET g == calls'[Len(calls')]
              IN /\ files' = files /\ disk' = disk
                 /\ g.st # "rejected"
                 /\ g.path = NoPath => (g.st = "resolved" /\ g.result = Null)
        /\ \A c \in CallIds :
             ( calls[c].op = "getItem" /\ calls[c].st = "running" /\ calls'[c].st # "running" )
             => /\ calls'[c].st = "resolved"
                /\ files' = files
                /\ \A p \in FinalPaths : disk'[p] = disk[p]
                /\ ( \/ disk[calls[c].path] = NoFile
                     \/ ParseThrows(disk[calls[c].path])
                     \/ calls'[c].fs # "ok" )
                   => calls'[c].result = Null
      ]_vars

\* C10 witness: one getItem found its key absent from the Index and another
\* read a file that is not JSON; both resolved with null.
C10_Witness ==
    \E a \in CallIds, b \in CallIds :
        /\ calls[a].op = "getItem" /\ calls[a].path = NoPath
        /\ calls[a].st = "resolved" /\ calls[a].result = Null
        /\ calls[b].op = "getItem" /\ calls[b].path # NoPath /\ calls[b].fs = "JSON.parse"
        /\ disk[calls[b].path] = Corrupt
        /\ calls[b].st = "resolved" /\ calls[b].result = Null

\* C11 (idempotent delete): a removeItem(k) that ran on its own, without a
\* filesystem fault, for a key present in the Index resolves and leaves the key
\* absent from the Index and getItem(k) at null; a removeItem(k) called next,
\* with the key absent, resolves at once, changes neither the Index nor the
\* directory and leaves getItem(k) at null.
C11_IdempotentDelete ==
    [][ /\ \A r \in CallIds :
             ( /\ calls[r].op = "removeItem" /\ calls[r].st = "running"
               /\ calls[r].quiet /\ r = Len(calls)
               /\ calls'[r].st # "running" /\ faults' = 0 )
             => /\ calls'[r].st = "resolved"
                /\ Lookup(files', calls[r].inst, calls[r].key) = NoPath
                /\ GetItemNow(calls[r].inst, calls[r].key)' = Null
        /\ ( /\ Len(calls') = Len(calls) + 1 /\ Len(calls) > 0
             /\ calls'[Len(calls')].op = "removeItem"
             /\ calls[Len(calls)].op = "removeItem"
             /\ calls[Len(calls)].key = calls'[Len(calls')].key
             /\ calls[Len(calls)].st = "resolved"
             /\ Lookup(files, calls'[Len(calls')].inst, calls'[Len(calls')].key) = NoPath )
           => LET r == calls'[Len(calls')]
              IN /\ r.st = "resolved"
                 /\ files' = files /\ disk' = disk
                 /\ \A i \in Instances, k \in Keys :
                        (r.inst = i /\ r.key = k) => GetItemNow(i, k)' = Null
      ]_vars

\* C12 (folder-scoped clear): when a clear({ folder: f }) with f not '' that
\* ran on its own resolves, every key whose indexed file path lies under f is
\* gone from the Index of every instance (its entry is purged, getItem returns
\* null, keys() does not list it), and every other key keeps its Index entry
\* and its value.
C12_FolderScopedClear ==
    [][ \A c \in CallIds :
          ( /\ calls[c].op = "clear" /\ calls[c].folder # ""
            /\ calls[c].st = "running" /\ calls'[c].st = "resolved"
            /\ calls[c].quiet /\ c = Len(calls) )
          => \A i \in Instances, k \in Keys :
                LET filePath == Lookup(files, i, k) IN
                /\ (filePath # NoPath /\ Under(filePath.folder, calls[c].folder))
                   => /\ Lookup(files', i, k) = NoPath
                      /\ GetItemNow(i, k)' = Null
                      /\ k \notin keys(i)'
                /\ (filePath # NoPath /\ ~Under(filePath.folder, calls[c].folder))
                   => /\ Lookup(files', i, k) = filePath
                      /\ GetItemNow(i, k)' = GetItemNow(i, k)
      ]_vars

\* C13 (full clear): once a clear() without folder that ran on its own has
\* resolved, and until the next call, keys() returns the empty list through
\* every instance, whatever was written before.
C13_FullClear ==
    \A c \in CallIds :
        ( /\ calls[c].op = "clear" /\ calls[c].folder = ""
          /\ calls[c].st = "resolved"
          /\ calls[c].quiet /\ c = Len(calls) )
        => \A i \in Instances : keys(i) = {}

\* C13 witness: item1 was stored in folder test1 through one instance and
\* listed by keys(); a clear() through the other instance has resolved.
C13_Witness ==
    \E c \in CallIds, w \in CallIds :
        /\ calls[c].op = "clear" /\ calls[c].folder = "" /\ calls[c].st = "resolved"
        /\ calls[c].quiet /\ c = Len(calls)
        /\ w < c /\ calls[w].op = "setItem" /\ calls[w].st = "resolved"
        /\ calls[w].folder = "test1" /\ calls[w].inst # calls[c].inst
        /\ \A i \in Instances : keys(i) = {}

\* C14 (folder-scoped keys): keys(f) returns exactly the keys whose indexed
\* file lies under folder f and holds their record; all keys when f is ''.
C14_FolderScopedKeys ==
    \A i \in Instances, f \in Folders :
        keysOfFolder(i, f) =
            {k \in Keys : LET filePath == Lookup(files, i, k)
                          IN /\ filePath # NoPath
                             /\ Under(filePath.folder, f)
                             /\ KeyOf(ReadJob(filePath, "ok", disk).item) = k}

\* C15 (external reconciliation): when no call is in flight and the only file
\* of key k is a well-formed record written from outside, getItem(k) returns
\* the value of that record, without the instance being constructed again.
C15_ExternalReconciliation ==
    \A i \in Instances, k \in Keys, f \in Folders :
        ( /\ Quiet(calls)
          /\ disk[FilePath(f, Md5(k))] = Stringify(k, ExternalValue)
          /\ \A g \in Folders \ {f} : disk[FilePath(g, Md5(k))] = NoFile )
        => GetItemNow(i, k) = ExternalValue

\* A file that holds a record with a key
WellFormed(text) == text.kind = "json" /\ text.key \in Keys

\* C16 (malformed file resilience): with files that are not JSON or have no
\* key in the directory, there from the start or written from outside later,
\* the directory scan of a construction completes, and every element of keys()
\* is the key of a well-formed record file: a malformed file contributes none.
C16_MalformedResilience ==
    /\ _getDirectoryInfo(disk) # {}
    /\ \A i \in Instances :
          keys(i) \subseteq {disk[p].key : p \in {q \in FinalPaths : WellFormed(disk[q])}}

\* C16 witness: the Index holds a file that is not JSON, present at the
\* construction, and a key-less file written from outside and found by a later
\* construction; keys() lists neither.
C16_Witness ==
    LET idx == files[FilesKey("storage1", InstanceDir("storage1"))]
    IN /\ \E n \in DOMAIN idx : disk[idx[n]] = Corrupt
       /\ \E n \in DOMAIN idx : disk[idx[n]] = KeyLess
       /\ keys("storage1") = {}

\* C17 (idempotent construction): the objects that constructions on one
\* directory yield are one and the same, and a further construction changes
\* neither the files on disk nor the set of keys in the Index.
C17_IdempotentConstruction ==
    [][ (calls' = calls /\ external' = external)
        => /\ \A i \in scope.instances, j \in scope.instances :
                 InstanceDir(i) = InstanceDir(j) => i = j
           /\ disk' = disk
           /\ \A i \in scope.instances :
                 /\ DOMAIN files'[FilesKey(i, InstanceDir(i))]
                        = DOMAIN files[FilesKey(i, InstanceDir(i))]
                 /\ keys(i)' = keys(i)
      ]_vars

\* C18 (temporary-file lifetime): a file with the temporary marker exists only
\* while the write job that created it is executing; it is gone once the job
\* has ended, by the rename after a successful write and by the delete after
\* a failed one.
C18_TmpFileLifetime ==
    \A p \in Paths :
        (IncludesTmpMarker(p.name) /\ disk[p] # NoFile)
        => /\ p.name.tmp \in CallIds
           /\ calls[p.name.tmp].op = "setItem"
           /\ calls[p.name.tmp].st = "running"
           /\ p = TmpPath(calls[p.name.tmp].path, p.name.tmp)

\* C19 (self-write suppression): the events of the store's own writes and
\* deletes are dropped and the event of any other change is reconciled into
\* the Index; so, once no call is in flight, a key whose only file is a
\* well-formed record, written by setItem or from outside, has that file's
\* path in the Index.
C19_SelfWriteSuppression ==
    \A i \in Instances, k \in Keys, f \in Folders :
        ( /\ Quiet(calls)
          /\ WellFormed(disk[FilePath(f, Md5(k))])
          /\ disk[FilePath(f, Md5(k))].key = k
          /\ \A g \in Folders \ {f} : disk[FilePath(g, Md5(k))] = NoFile )
        => Lookup(files, i, k) = FilePath(f, Md5(k))

\* The record files of key k in the directory tree, over all folders
RecordFiles(k) == {p \in FinalPaths : WellFormed(disk[p]) /\ disk[p].key = k}

\* C20 (one live path per key): at most one record file with embedded key k
\* exists in the directory tree, and an Index entry of k points to it, also
\* after setItem calls for k that name different folders.  Stated for the keys
\* whose files were all written through the API.
C20_OneLivePath ==
    \A k \in FreshKeys :
        /\ Cardinality(RecordFiles(k)) <= 1
        /\ \A i \in Instances, p \in RecordFiles(k) :
              Lookup(files, i, k) # NoPath => Lookup(files, i, k) = p

\* The calls whose job is waiting or executing on file path p
InFlightOn(p) == {c \in CallIds : HasJob(c) /\ calls[c].path = p /\ ~IsSettled(c)}

\* C21 (queue reclamation): Storage.queues has an entry for a file path
\* exactly while a job for that path is waiting or executing; once every
\* call has settled, by success or by failure, the map is empty.
C21_QueueReclamation ==
    /\ \A p \in DOMAIN queues :
          /\ InFlightOn(p) # {}
          /\ queues[p].pending # {} \/ queues[p].jobs # <<>>
    /\ \A p \in FinalPaths : InFlightOn(p) # {} => p \in DOMAIN queues
    /\ Quiet(calls) => queues = EmptyMap

\* C21 witness: two jobs of one path have ended, one by failure and one by
\* success, no call is in flight and the queue map is empty.
C21_Witness ==
    /\ Quiet(calls)
    /\ queues = EmptyMap
    /\ \E c \in CallIds, d \in CallIds :
          /\ HasJob(c) /\ HasJob(d) /\ calls[c].path = calls[d].path
          /\ calls[c].st = "rejected" /\ calls[d].st = "resolved"
          /\ c < d /\ ~calls[d].quiet

\* The calls that a step submits or moves on
Touched == {c \in 1..Len(calls') : c > Len(calls) \/ calls'[c] # calls[c]}

OwnOutcome(c) ==
    /\ calls[c].st = "running"
    /\ calls'[c].fs # ""
    /\ calls[c].op = "setItem" => (calls'[c].st = "rejected" <=> calls'[c].fs # "ok")
    /\ calls[c].op = "removeItem" => (calls'[c].st = "rejected" <=> calls'[c].fs # "ok")
    /\ calls[c].op = "getItem" =>
          /\ calls'[c].st = "resolved"
          /\ calls'[c].result = IF calls'[c].fs = "ok"
                                THEN GetItemResult(Parse(disk[calls[c].path]))
                                ELSE Null

\* C23 (no lost completion): with every filesystem call returning in the
\* end, every setItem, getItem and removeItem call settles: whatever has been
\* submitted, a state follows in which every call made so far has settled.  A
\* call settles in the step in which its own job ends, with that job's
\* outcome, and once settled it stays as it is.
C23_NoLostCompletion ==
    /\ [][ \A c \in CallIds :
             /\ (HasJob(c) /\ ~IsSettled(c) /\ calls'[c].st \in {"resolved", "rejected"})
                => OwnOutcome(c)
             /\ IsSettled(c) => calls'[c] = calls[c]
         ]_vars
    /\ []<>(\A c \in CallIds : calls[c].op # "clear" => IsSettled(c))

\* C23 witness: a job pushed while its queue was busy and a job pushed to the
\* same path after that queue had ended have both settled, the first job of
\* the path by failure.
C23_Witness ==
    /\ Len(calls) = 3
    /\ \A c \in CallIds : HasJob(c) /\ calls[c].path = calls[1].path /\ IsSettled(c)
    /\ calls[1].st = "rejected"
    /\ ~calls[2].quiet
    /\ calls[3].quiet

\* C24 (remove after un-awaited write): when removeItem(k) is submitted after
\* setItem(k, v) and before that setItem has resolved, whether or not k was in
\* the Index before, then once both calls have settled k is absent from the
\* Index and getItem(k) returns null.
C24_RemoveAfterWrite ==
    ( /\ Len(calls) = 2
      /\ calls[1].op = "setItem" /\ calls[2].op = "removeItem"
      /\ calls[2].key = calls[1].key
      /\ ~calls[2].quiet
      /\ Quiet(calls)
      /\ faults = 0 )
    => \A i \in Instances :
          /\ Lookup(files, i, calls[1].key) = NoPath
          /\ GetItemNow(i, calls[1].key) = Null

\* C25 (read after un-awaited write): a getItem(k) submitted after
\* setItem(k, v) and before that setItem has resolved returns v or the value
\* of a setItem(k, .) submitted later, never null and never an older value,
\* whether or not k was in the Index before.  Stated for truthy values, with
\* no call other than setItem and getItem made and no filesystem fault.
C25_ReadAfterWrite ==
    ( /\ Len(calls) >= 2
      /\ calls[1].op = "setItem" /\ calls[2].op = "getItem"
      /\ calls[2].key = calls[1].key
      /\ ~calls[2].quiet
      /\ calls[2].st = "resolved"
      /\ \A c \in CallIds : /\ calls[c].op \in {"setItem", "getItem"}
                            /\ calls[c].op = "setItem" => Truthy(calls[c].value)
      /\ faults = 0 )
    => calls[2].result \in {calls[c].value : c \in {d \in CallIds : /\ calls[d].op = "setItem"
                                                                    /\ calls[d].key = calls[1].key}}

====
